---- MODULE Spec2Model ----
(***************************************************************************)
(* A model of the Spark API code samples: one run of a script, from the    *)
(* resolution of the credentials over the token exchange to the resource   *)
(* GETs, with the server's answers as the nondeterministic inputs.         *)
(*                                                                         *)
(* Text that the code slices, splits or encodes (credentials, tokens,      *)
(* header values, file contents) is a sequence of one-character strings.   *)
(* Text that the code only passes on (tickers, dates, uri literals) is a   *)
(* TLA+ string, and a formatted uri is the sequence of its pieces.         *)
(***************************************************************************)
EXTENDS Integers, Sequences, FiniteSets, TLC

(***************************************************************************)
(* Bounds of the model.                                                    *)
(***************************************************************************)
MaxTickers == 7
MaxRoutes == 3
MaxReleaseDates == 11
MaxDataPoints == 2
MaxReleases == 2

(***************************************************************************)
(* Characters, bytes and base64.  Printable lists ASCII 32..126 in order;  *)
(* the grave accent (96), which a TLA+ string cannot hold, is spelled out. *)
(***************************************************************************)
Printable ==
  <<" ", "!", "\"", "#", "$", "%", "&", "'", "(", ")", "*", "+", ",", "-",
    ".", "/", "0", "1", "2", "3", "4", "5", "6", "7", "8", "9", ":", ";",
    "<", "=", ">", "?", "@", "A", "B", "C", "D", "E", "F", "G", "H", "I",
    "J", "K", "L", "M", "N", "O", "P", "Q", "R", "S", "T", "U", "V", "W",
    "X", "Y", "Z", "[", "\\", "]", "^", "_", "<grave>", "a", "b", "c", "d", "e",
    "f", "g", "h", "i", "j", "k", "l", "m", "n", "o", "p", "q", "r", "s",
    "t", "u", "v", "w", "x", "y", "z", "{", "|", "}", "~">>

B64Alphabet ==
  <<"A", "B", "C", "D", "E", "F", "G", "H", "I", "J", "K", "L", "M", "N",
    "O", "P", "Q", "R", "S", "T", "U", "V", "W", "X", "Y", "Z", "a", "b",
    "c", "d", "e", "f", "g", "h", "i", "j", "k", "l", "m", "n", "o", "p",
    "q", "r", "s", "t", "u", "v", "w", "x", "y", "z", "0", "1", "2", "3",
    "4", "5", "6", "7", "8", "9", "+", "/">>

\* ord(c) of an ASCII character
Ord(c) == IF c = "\n" THEN 10
          ELSE 31 + (CHOOSE i \in 1..Len(Printable) : Printable[i] = c)

\* chr(n) of an ASCII code
Chr(n) == IF n = 10 THEN "\n" ELSE Printable[n - 31]

\* str.encode(): the bytes of an ASCII text
encode(s) == [i \in 1..Len(s) |-> Ord(s[i])]

\* bytes.decode(): the text of ASCII bytes
decode(b) == [i \in 1..Len(b) |-> Chr(b[i])]

B64Byte(n) == Ord(B64Alphabet[n + 1])

RECURSIVE b64encode(_)
\* base64.b64encode: three bytes become four symbols, "=" pads the last group
b64encode(b) ==
  IF Len(b) = 0 THEN <<>>
  ELSE IF Len(b) = 1 THEN
    << B64Byte(b[1] \div 4), B64Byte((b[1] % 4) * 16), Ord("="), Ord("=") >>
  ELSE IF Len(b) = 2 THEN
    << B64Byte(b[1] \div 4),
       B64Byte((b[1] % 4) * 16 + b[2] \div 16),
       B64Byte((b[2] % 16) * 4),
       Ord("=") >>
  ELSE
    << B64Byte(b[1] \div 4),
       B64Byte((b[1] % 4) * 16 + b[2] \div 16),
       B64Byte((b[2] % 16) * 4 + b[3] \div 64),
       B64Byte(b[3] % 64) >> \o b64encode(SubSeq(b, 4, Len(b)))

\* s[:n]
Take(s, n) == SubSeq(s, 1, IF Len(s) < n THEN Len(s) ELSE n)

(***************************************************************************)
(* Text operations of the credentials parser.                              *)
(***************************************************************************)
RECURSIVE readlines(_)
\* fp.readlines(): the lines of a text, each with its line terminator
readlines(text) ==
  IF Len(text) = 0 THEN <<>>
  ELSE IF \E i \in 1..Len(text) : text[i] = "\n" THEN
    LET n == CHOOSE i \in 1..Len(text) :
               /\ text[i] = "\n"
               /\ \A j \in 1..(i - 1) : text[j] # "\n"
    IN <<SubSeq(text, 1, n)>> \o readlines(SubSeq(text, n + 1, Len(text)))
  ELSE <<text>>

\* the k-th fp.readline() of a freshly opened file ("" at end of file)
readline(text, k) ==
  IF k <= Len(readlines(text)) THEN readlines(text)[k] ELSE <<>>

RECURSIVE replace_newline(_)
\* l.replace("\n", "")
replace_newline(l) ==
  IF Len(l) = 0 THEN <<>>
  ELSE IF l[1] = "\n" THEN replace_newline(Tail(l))
  ELSE <<l[1]>> \o replace_newline(Tail(l))

\* sub in s
Contains(sub, s) ==
  \E i \in 0..(Len(s) - Len(sub)) : SubSeq(s, i + 1, i + Len(sub)) = sub

RECURSIVE split(_, _)
\* s.split(sep) for a one-character separator
split(s, sep) ==
  IF \E i \in 1..Len(s) : s[i] = sep THEN
    LET n == CHOOSE i \in 1..Len(s) :
               /\ s[i] = sep
               /\ \A j \in 1..(i - 1) : s[j] # sep
    IN <<SubSeq(s, 1, n - 1)>> \o split(SubSeq(s, n + 1, Len(s)), sep)
  ELSE <<s>>

HeaderCamel ==
  <<"c", "l", "i", "e", "n", "t", "I", "d", ",",
    "c", "l", "i", "e", "n", "t", "S", "e", "c", "r", "e", "t">>

HeaderSnake ==
  <<"c", "l", "i", "e", "n", "t", "_", "i", "d", ",",
    "c", "l", "i", "e", "n", "t", "_", "s", "e", "c", "r", "e", "t">>

(***************************************************************************)
(* The scripts.                                                            *)
(***************************************************************************)
CommandLineScripts == {"spark_api_example", "spark_price_releases"}
TutorialScripts == {"historical_prices", "freight_routes", "netbacks"}
Scripts == CommandLineScripts \cup TutorialScripts

\* the file_path each script passes to retrieve_credentials: sys.argv[1] if
\* given and else None for the command-line scripts, a fixed path for the
\* tutorials
FilePath(scr, argv) ==
  IF scr \in TutorialScripts
    THEN [given |-> TRUE,
          path |-> "/Users/qasimafghan/Downloads/client_credentials.csv"]
  ELSE IF Len(argv) >= 1 THEN [given |-> TRUE, path |-> argv[1]]
  ELSE [given |-> FALSE, path |-> ""]

\* print(...): one printed line, as its format text and its arguments
Line(text, args) == [text |-> text, args |-> args]

NoCredentials == [client_id |-> <<>>, client_secret |-> <<>>]

Raise(error, printed) ==
  [raised |-> TRUE, error |-> error, printed |-> printed,
   value |-> NoCredentials]

FoundCredentials_unmasked(id, secret) ==
  [raised |-> FALSE, error |-> "", value |-> [client_id |-> id,
                                               client_secret |-> secret],
   printed |-> << Line(">>>> Found credentials!", <<>>),
                  Line(">>>> Client_id={}, client_secret={}****",
                       <<id, secret>>) >>]

FoundCredentials(id, secret) ==
  [raised |-> FALSE, error |-> "", value |-> [client_id |-> id,
                                               client_secret |-> secret],
   printed |-> << Line(">>>> Found credentials!", <<>>),
                  Line(">>>> Client_id={}, client_secret={}****",
                       <<id, Take(secret, 5)>>) >>]

\* os.getenv(name): None (unset) or the value
getenv(env, name) == env[name]

credentials_from_env_unchecked(env) ==
  FoundCredentials(getenv(env, "SPARK_CLIENT_ID").value,
                   getenv(env, "SPARK_CLIENT_SECRET").value)

\* retrieve_credentials with file_path None
credentials_from_env(env) ==
  LET client_id == getenv(env, "SPARK_CLIENT_ID")
      client_secret == getenv(env, "SPARK_CLIENT_SECRET")
  IN IF \/ ~client_id.set \/ Len(client_id.value) = 0
        \/ ~client_secret.set \/ Len(client_secret.value) = 0
       THEN Raise("RuntimeError", <<>>)
     ELSE FoundCredentials(client_id.value, client_secret.value)

credentials_from_file_example_unchecked(file) ==
  LET fields == split(readline(file.content, 2), ",")
  IN FoundCredentials(fields[1], IF Len(fields) >= 2 THEN fields[2] ELSE <<>>)

\* retrieve_credentials of spark_api_example.py with a file path
credentials_from_file_example(file) ==
  IF ~file.isfile THEN Raise("RuntimeError", <<>>)
  ELSE
    LET first_line == readline(file.content, 1)
        second_line == readline(file.content, 2)
        fields == split(second_line, ",")
    IN IF ~Contains(HeaderCamel, first_line)
         THEN Raise("RuntimeError", <<Line("First line: {}", <<first_line>>)>>)
       ELSE IF Len(fields) # 2 THEN Raise("ValueError", <<>>)
       ELSE FoundCredentials(fields[1], fields[2])

\* retrieve_credentials of spark_price_releases.py and of the tutorials with
\* a file path
credentials_from_file_releases(file) ==
  IF ~file.isfile THEN Raise("RuntimeError", <<>>)
  ELSE
    LET lines == [i \in 1..Len(readlines(file.content)) |->
                    replace_newline(readlines(file.content)[i])]
    IN IF Len(lines) < 1 THEN Raise("IndexError", <<>>)
       ELSE IF lines[1] \in {HeaderCamel, HeaderSnake} THEN
         IF Len(lines) < 2 THEN Raise("IndexError", <<>>)
         ELSE IF Len(split(lines[2], ",")) # 2 THEN Raise("ValueError", <<>>)
         ELSE FoundCredentials(split(lines[2], ",")[1], split(lines[2], ",")[2])
       ELSE Raise("RuntimeError",
                  <<Line("First line read: '{}'", <<lines[1]>>)>>)

retrieve_credentials(scr, file_path, file, env) ==
  IF ~file_path.given THEN credentials_from_env(env)
  ELSE IF scr = "spark_api_example" THEN credentials_from_file_example(file)
  ELSE credentials_from_file_releases(file)

(***************************************************************************)
(* HTTP: requests, the server's answers, and the two query helpers.        *)
(***************************************************************************)
API_BASE_URL == "https://api.sparkcommodities.com"

\* the status codes the server may answer with (a 3xx answer is followed by
\* the HTTP library and never reaches the helpers)
SuccessStatuses == {200, 201}
ErrorStatuses == {400, 500}
Statuses == SuccessStatuses \cup ErrorStatuses

\* the body of a response: the raw content, which is a JSON document or not
JsonBody(value) == [valid |-> TRUE, json |-> value]
NotJsonBody == [valid |-> FALSE, json |-> [raw |-> "<html>"]]

\* an answer of the server, or no answer at all (the host is unreachable)
Answer(status, body) == [reachable |-> TRUE, status |-> status, body |-> body]
Unreachable == [reachable |-> FALSE, status |-> 0, body |-> NotJsonBody]
NoResponse == [reachable |-> FALSE, status |-> -1, body |-> NotJsonBody]

\* urljoin(API_BASE_URL, uri) for a uri that is an absolute path
urljoin(base, uri) == <<base>> \o uri

RECURSIVE json_dumps_members(_)
json_dumps_members(pairs) ==
  IF Len(pairs) = 0 THEN <<>>
  ELSE <<pairs[1][1], ": ", pairs[1][2]>>
       \o (IF Len(pairs) > 1 THEN <<", ">> ELSE <<>>)
       \o json_dumps_members(Tail(pairs))

\* json.dumps(body) of a dict of strings, given as its items in order
json_dumps(pairs) == <<"{">> \o json_dumps_members(pairs) \o <<"}">>

NoData == <<>>

\* request.Request(url, data, headers): a POST when data is given, else a GET
Request(url, data, headers) ==
  [method |-> IF data = NoData THEN "GET" ELSE "POST",
   url |-> url, data |-> data, headers |-> headers]

NoContent == [none |-> TRUE]

\* an optional value: one that is given, or None
Given(value) == [given |-> TRUE, value |-> value]
None == [given |-> FALSE, value |-> <<>>]

returned_data_forgotten(content) == None

\* my_dict = content['data'] ... return my_dict
returned_data(content) == Given(content.data)

Outcome_resending(req, outcome, printed, content) ==
  [sent |-> IF outcome = "return" THEN <<req>> ELSE <<req, req>>,
   outcome |-> outcome, printed |-> printed, content |-> content]

\* what a helper did: the request it sent, how it ended ("return", "exit" for
\* sys.exit(1), or the exception it let escape), what it printed and returned
Outcome(req, outcome, printed, content) ==
  [sent |-> <<req>>, outcome |-> outcome, printed |-> printed,
   content |-> content]

\* a call that ended before it sent anything
Unsent(outcome, printed, content) ==
  [sent |-> <<>>, outcome |-> outcome, printed |-> printed,
   content |-> content]

\* the result q of a helper, continued by its caller: the caller printed
\* before and after, and ended with outcome and content
Continue(q, before, after, outcome, content) ==
  [sent |-> q.sent, outcome |-> outcome,
   printed |-> before \o q.printed \o after, content |-> content]

\* the helper did not return: its caller ends the same way
Propagate(q, before, content) ==
  Continue(q, before, <<>>, q.outcome, content)

Has(object, key) == key \in DOMAIN object

http_error_lines_without_body(resp) ==
  << Line("HTTP Error: ", <<resp.status>>) >>

\* the lines of the except HTTPError branch: e.code, then e.read()
http_error_lines(resp) ==
  << Line("HTTP Error: ", <<resp.status>>), Line("{}", <<resp.body>>) >>

urlopen_and_check_asserting(req, resp, expected, opt) ==
  IF ~resp.reachable THEN Outcome(req, "URLError", <<>>, NoContent)
  ELSE IF resp.status < 200 \/ resp.status >= 300 THEN
    Outcome(req, "exit", http_error_lines(resp), NoContent)
  ELSE IF resp.status # expected THEN
    Outcome(req, "AssertionError", <<>>, NoContent)
  ELSE IF ~resp.body.valid THEN
    Outcome(req, "JSONDecodeError", <<>>, NoContent)
  ELSE Outcome(req, "return", <<>>, resp.body.json)

\* request.urlopen(req) and the handling of its result, common to both helpers
urlopen_and_check(req, resp, expected, opt) ==
  IF ~resp.reachable THEN Outcome(req, "URLError", <<>>, NoContent)
  ELSE IF resp.status < 200 \/ resp.status >= 300 THEN
    Outcome(req, "exit", http_error_lines(resp), NoContent)
  ELSE IF ~opt /\ resp.status # expected THEN
    Outcome(req, "AssertionError", <<>>, NoContent)
  ELSE IF ~resp.body.valid THEN
    Outcome(req, "JSONDecodeError", <<>>, NoContent)
  ELSE Outcome(req, "return", <<>>, resp.body.json)

do_api_post_query(uri, body, headers, resp, opt) ==
  urlopen_and_check(Request(urljoin(API_BASE_URL, uri), json_dumps(body),
                            headers),
                    resp, 201, opt)

Bearer == <<"B", "e", "a", "r", "e", "r", " ">>

get_headers_first_five(access_token) ==
  ("Authorization" :> Bearer \o Take(access_token, 5))
  @@ ("Accept" :> "application/json")

\* the headers of a GET
get_headers(access_token) ==
  ("Authorization" :> Bearer \o access_token)
  @@ ("Accept" :> "application/json")

do_api_get_query(uri, access_token, resp, opt) ==
  urlopen_and_check(Request(urljoin(API_BASE_URL, uri), NoData,
                            get_headers(access_token)),
                    resp, 200, opt)

(***************************************************************************)
(* The token exchange.                                                     *)
(***************************************************************************)
token_request_body_same_everywhere(scr) ==
  << <<"grantType", "clientCredentials">>,
     <<"scopes", "read:lng-freight-prices,read:routes">> >>

\* the body of the token request of each script, as the items of the dict
token_request_body(scr) ==
  IF scr = "spark_price_releases"
    THEN << <<"grantType", "clientCredentials">> >>
  ELSE IF scr = "netbacks"
    THEN << <<"grantType", "clientCredentials">>,
            <<"scopes", "read:netbacks,read:access,read:prices,read:routes">> >>
  ELSE << <<"grantType", "clientCredentials">>,
          <<"scopes", "read:lng-freight-prices,read:routes">> >>

\* the Authorization header of the token request
token_request_authorization(client_id, client_secret) ==
  decode(b64encode(encode(client_id \o <<":">> \o client_secret)))

NoToken == <<>>

returned_token_first_five(content) == Take(content.accessToken, 5)

\* return content["accessToken"]
returned_token(content) == content.accessToken

token_lines_without_lifetime(content) ==
  <<Line(">>>> Successfully fetched an access token {}****.",
         <<Take(content.accessToken, 5)>>)>>

\* the line get_access_token prints before it returns
token_lines(content) ==
  <<Line(">>>> Successfully fetched an access token {}****, valid {} seconds.",
         <<Take(content.accessToken, 5), content.expiresIn>>)>>

get_access_token(scr, client_id, client_secret, resp, opt) ==
  LET q == do_api_post_query(
             <<"/oauth/token/">>, token_request_body(scr),
             ("Authorization" :>
                token_request_authorization(client_id, client_secret))
             @@ ("Accept" :> "application/json")
             @@ ("Content-Type" :> "application/json"),
             resp, opt)
      content == q.content
  IN IF q.outcome # "return" THEN Propagate(q, <<>>, NoToken)
     ELSE IF ~Has(content, "accessToken") \/ ~Has(content, "expiresIn")
       THEN Continue(q, <<>>, <<>>, "KeyError", NoToken)
     ELSE Continue(q, <<>>, token_lines(content), "return",
                   returned_token(content))

(***************************************************************************)
(* The JSON documents the resource endpoints may answer with: well-formed  *)
(* ones of every size within the bounds and ones of an unexpected shape.   *)
(***************************************************************************)
TickerId(k) == "spark" \o ToString(k) \o "s"
FullName(k) == "Spark" \o ToString(k) \o "S"
ReleaseDate(k) == "2023-03-" \o ToString(k)
RouteUuid(k) == "route-" \o ToString(k)

\* the document of an error answer
ErrorDocument == [errors |-> "refused"]

Contract(k) == [id |-> TickerId(k), fullName |-> FullName(k)]

ContractsDocuments ==
  { [data |-> [k \in 1..n |-> Contract(k)]] : n \in 0..MaxTickers }
  \cup { [data |-> << [id |-> TickerId(1)] >>], ErrorDocument }

DataPoint(k) ==
  [deliveryPeriod |-> [startAt |-> ReleaseDate(k)],
   derivedPrices |-> [usdPerDay |-> [spark |-> 100 + k, sparkMin |-> 90 + k,
                                     sparkMax |-> 110 + k],
                      usdPerMMBtu |-> [spark |-> k, sparkMin |-> k - 1,
                                       sparkMax |-> k + 1]]]

Release(k, points) ==
  [releaseDate |-> ReleaseDate(k), contractId |-> TickerId(1),
   data |-> << [dataPoints |-> [p \in 1..points |-> DataPoint(p)]] >>]

LatestDocuments ==
  { [data |-> Release(1, MaxDataPoints)],
    [data |-> [releaseDate |-> ReleaseDate(1), data |-> <<>>]],
    ErrorDocument }

\* the command-line scripts only print the releases; the tutorial flattens
\* them, so it gets every number of releases with every number of data
\* points each, releases with unlike numbers of data points, and a release
\* without contractId
HistoricalDocuments(scr) ==
  { [data |-> << [releaseDate |-> ReleaseDate(1), data |-> <<>>] >>],
    ErrorDocument }
  \cup
  (IF scr = "historical_prices"
     THEN { [data |-> [k \in 1..n |-> Release(k, p)]] :
              n \in 0..MaxReleases, p \in 1..MaxDataPoints }
          \cup { [data |-> <<Release(1, 2), Release(2, 0)>>],
                 [data |-> << [releaseDate |-> ReleaseDate(1),
                               data |-> <<[dataPoints |-> <<>>]>>] >>] }
   ELSE { [data |-> [k \in 1..n |-> Release(k, MaxDataPoints)]] :
            n \in 0..1 })

Port(uuid, name, region) == [uuid |-> uuid, name |-> name, region |-> region]

Route(k) ==
  [uuid |-> RouteUuid(k),
   loadPort |-> Port("port-1", "Sabine Pass", "atlantic"),
   dischargePort |-> Port("port-2", "Futtsu", "pacific"),
   via |-> "panama"]

RoutesDocument(r, d) ==
  [data |-> [routes |-> [k \in 1..r |-> Route(k)],
             sparkReleaseDates |-> [k \in 1..d |-> ReleaseDate(k)]]]

\* every number of routes with all the release dates, and one route with
\* every number of release dates
RoutesDocuments ==
  { RoutesDocument(r, MaxReleaseDates) : r \in 0..MaxRoutes }
  \cup { RoutesDocument(1, d) : d \in 0..MaxReleaseDates }
  \cup { [data |-> [routes |-> << [uuid |-> RouteUuid(1)] >>,
                    sparkReleaseDates |-> <<ReleaseDate(1)>>]],
         ErrorDocument }

\* spark_api_example.py prints the whole document and reads no member of it
RouteCostDocuments(scr) ==
  { [data |-> [name |-> "Sabine Pass to Futtsu", dataPoints |-> <<>>]] }
  \cup (IF scr = "spark_api_example" THEN {} ELSE { ErrorDocument })

IntradayDocuments ==
  { [data |-> << [asOf |-> ReleaseDate(1), periodName |-> "M+1",
                  revision |-> 1, value |-> 7] >>],
    [data |-> << [asOf |-> ReleaseDate(1)] >>],
    ErrorDocument }

RouteDataDocuments ==
  { [data |-> [name |-> "Sabine Pass to Futtsu", dataPoints |-> <<>>]],
    ErrorDocument }

FobPort(k, name, via) ==
  [uuid |-> "fob-" \o ToString(k), name |-> name, availableViaPoints |-> via]

\* the reference data of the netbacks: a port without via points, Cove Point
\* and Sabine Pass, the latter with all three or with one via point; the
\* port without via points comes first or between the two others
ReferenceDocuments ==
  { [data |-> [staticData |->
       [fobPorts |-> <<FobPort(1, "Bonny LNG", <<>>),
                       FobPort(2, "Cove Point", <<"cogh", "suez">>),
                       FobPort(3, "Sabine Pass", via)>>,
        sparkReleases |-> [k \in 1..d |-> ReleaseDate(k)]]]] :
      via \in {<<"cogh", "panama", "suez">>, <<"cogh">>}, d \in 0..1 }
  \cup { [data |-> [staticData |->
            [fobPorts |-> <<FobPort(1, "Cove Point", <<"cogh", "suez">>),
                            FobPort(2, "Bonny LNG", <<>>),
                            FobPort(3, "Sabine Pass", <<"cogh">>)>>,
             sparkReleases |-> <<ReleaseDate(1)>>]]],
         [data |-> [staticData |->
            [fobPorts |-> <<FobPort(1, "Bonny LNG", <<>>)>>,
             sparkReleases |-> <<ReleaseDate(1)>>]]],
         ErrorDocument }

NetbackDocuments ==
  { [data |-> [name |-> "Cove Point", netbacks |-> <<>>]],
    ErrorDocument }

Tokens == { <<"a", "b", "c", "1", "2", "3">>, <<"a", "b", "c", "1", "2", "9">> }

\* the lifetime the token endpoint grants a token: an hour, or none at all
Lifetime(t) == IF t = <<"a", "b", "c", "1", "2", "3">> THEN 3600 ELSE 0

TokenDocuments ==
  { [accessToken |-> t, expiresIn |-> Lifetime(t)] : t \in Tokens }
  \cup { [accessToken |-> <<"a", "b", "c", "1", "2", "3">>],
         [expiresIn |-> 3600],
         ErrorDocument }

\* every answer the server may give when the documents of an endpoint are
\* docs: no answer, a 2xx answer with one of the documents or with a body that
\* is not JSON, an error answer with an error document or such a body
Answers(docs) ==
  {Unreachable}
  \cup { Answer(st, JsonBody(d)) : st \in SuccessStatuses, d \in docs }
  \cup { Answer(st, NotJsonBody) : st \in Statuses }
  \cup { Answer(st, JsonBody(ErrorDocument)) : st \in ErrorStatuses }

(***************************************************************************)
(* The data fetching functions.  Each takes the server's answer to its     *)
(* request and yields what the call sent, printed and returned, and how it *)
(* ended.                                                                  *)
(***************************************************************************)
\* the index of the first element of list that lacks one of keys, or
\* Len(list) + 1 when every element has them all
FirstLacking(list, keys) ==
  IF \E k \in 1..Len(list) : \E key \in keys : ~Has(list[k], key)
    THEN CHOOSE k \in 1..Len(list) :
           /\ \E key \in keys : ~Has(list[k], key)
           /\ \A j \in 1..(k - 1) : \A key \in keys : Has(list[j], key)
  ELSE Len(list) + 1

ticker_ids_reversed(data) ==
  [k \in 1..Len(data) |-> data[Len(data) + 1 - k].id]

\* tickers after the loop: tickers.append(contract["id"]) for every contract
ticker_ids(data) == [k \in 1..Len(data) |-> data[k].id]

list_contracts(scr, access_token, resp, opt) ==
  LET q == do_api_get_query(<<"/v1.0/contracts/">>, access_token, resp, opt)
      content == q.content
      heading == Line(IF scr = "spark_api_example" THEN ">>>> Contracts:"
                      ELSE ">>>> All the contracts you can fetch", <<>>)
  IN IF q.outcome # "return" THEN Propagate(q, <<>>, <<>>)
     ELSE IF ~Has(content, "data")
       THEN Continue(q, <<>>, <<>>, "KeyError", <<>>)
     ELSE
       LET bad == FirstLacking(content.data, {"fullName", "id"})
           names == [k \in 1..(bad - 1) |->
                       Line("{}", <<content.data[k].fullName>>)]
       IN IF bad <= Len(content.data)
            THEN Continue(q, <<>>, <<heading>> \o names, "KeyError", <<>>)
          ELSE Continue(q, <<>>, <<heading>> \o names, "return",
                        ticker_ids(content.data))

\* spark_prices of one data point: the spark price of every unit
spark_prices(data_point) ==
  [unit \in DOMAIN data_point.derivedPrices |->
     data_point.derivedPrices[unit].spark]

\* the lines the loop over data_points prints
price_lines(data_points) ==
  [k \in 1..Len(data_points) |->
     Line("Spark Price={} for period starting on {}",
          <<spark_prices(data_points[k]),
            data_points[k].deliveryPeriod.startAt>>)]

\* the same loop in the tutorial's fetch_latest_price_releases, which prints
\* the ticker after every price
price_and_ticker_lines(data_points, ticker) ==
  [k \in 1..(2 * Len(data_points)) |->
     IF k % 2 = 1 THEN price_lines(data_points)[(k + 1) \div 2]
     ELSE Line("{}", <<ticker>>)]

\* get_latest_price_releases / fetch_latest_price_releases
fetch_latest_price_releases(scr, access_token, ticker, resp, opt) ==
  LET q == do_api_get_query(
             <<"/v1.0/contracts/", ticker, "/price-releases/latest/">>,
             access_token, resp, opt)
      content == q.content
  IN IF q.outcome # "return" THEN Propagate(q, <<>>, None)
     ELSE IF ~Has(content, "data") \/ ~Has(content.data, "releaseDate")
       THEN Continue(q, <<>>, <<>>, "KeyError", None)
     ELSE
       LET head == << Line(">>>> Get latest price release for {}", <<ticker>>),
                      Line("release date =", <<content.data.releaseDate>>) >>
       IN IF ~Has(content.data, "data")
            THEN Continue(q, <<>>, head, "KeyError", None)
          ELSE IF Len(content.data.data) = 0
            THEN Continue(q, <<>>, head, "IndexError", None)
          ELSE Continue(q, <<>>,
                        head \o (IF scr = "historical_prices"
                                   THEN price_and_ticker_lines(
                                          content.data.data[1].dataPoints,
                                          ticker)
                                 ELSE price_lines(
                                        content.data.data[1].dataPoints)),
                        "return",
                        IF scr = "historical_prices"
                          THEN returned_data(content) ELSE None)

NoOffset == [given |-> FALSE, value |-> 0]

\* limit=4 in the signature of fetch_historical_price_releases
DefaultLimit == 4

\* no direct call of a fetch function
NoCall == [function |-> ""]

historical_query_params_if_offset(limit, offset) ==
  <<"?limit=", ToString(limit)>>
  \o (IF offset.given /\ offset.value # 0
        THEN <<"&offset=", ToString(offset.value)>> ELSE <<>>)

\* the query string of fetch_historical_price_releases
historical_query_params(limit, offset) ==
  <<"?limit=", ToString(limit)>>
  \o (IF offset.given THEN <<"&offset=", ToString(offset.value)>> ELSE <<>>)

RECURSIVE release_lines(_)
\* the lines the loop over the releases prints, up to the first release
\* without data
release_lines(releases) ==
  IF Len(releases) = 0 THEN <<>>
  ELSE <<Line("- release date =", <<releases[1].releaseDate>>)>>
       \o (IF Len(releases[1].data) = 0 THEN <<>>
           ELSE price_lines(releases[1].data[1].dataPoints)
                \o release_lines(Tail(releases)))

fetch_historical_price_releases(scr, access_token, ticker, limit, offset, resp, opt) ==
  LET q == do_api_get_query(
             <<"/v1.0/contracts/", ticker, "/price-releases/">>
             \o historical_query_params(limit, offset),
             access_token, resp, opt)
      content == q.content
      announce == <<Line(">>>> Get price releases for {}", <<ticker>>)>>
      before == IF scr = "spark_api_example" THEN <<>> ELSE announce
      after == IF scr = "spark_api_example" THEN announce ELSE <<>>
  IN IF q.outcome # "return" THEN Propagate(q, before, None)
     ELSE IF ~Has(content, "data")
       THEN Continue(q, before, after, "KeyError", None)
     ELSE IF \E k \in 1..Len(content.data) : Len(content.data[k].data) = 0
       THEN Continue(q, before, after \o release_lines(content.data),
                     "IndexError", None)
     ELSE Continue(q, before, after \o release_lines(content.data),
                   "return",
                   IF scr = "historical_prices"
                     THEN returned_data(content) ELSE None)

(***************************************************************************)
(* The flattening of the historical prices tutorial: the loop over the     *)
(* releases that fills the column lists, and the DataFrame made of them.   *)
(***************************************************************************)
RECURSIVE data_points_of(_)
\* the data points the inner loop visits, release after release
data_points_of(releases) ==
  IF Len(releases) = 0 THEN <<>>
  ELSE releases[1].data[1].dataPoints \o data_points_of(Tail(releases))

NoColumns ==
  [release_dates |-> <<>>, period_start |-> <<>>, ticker |-> <<>>,
   usd_day |-> <<>>, usd_mmbtu |-> <<>>, day_min |-> <<>>, day_max |-> <<>>]

\* the column lists after the loop: release_dates and ticker get one element
\* for every release, the other lists one for every data point
column_lists(releases) ==
  LET points == data_points_of(releases)
  IN [release_dates |-> [k \in 1..Len(releases) |-> releases[k].releaseDate],
      ticker |-> [k \in 1..Len(releases) |-> releases[k].contractId],
      period_start |-> [k \in 1..Len(points) |->
                          points[k].deliveryPeriod.startAt],
      usd_day |-> [k \in 1..Len(points) |->
                     points[k].derivedPrices.usdPerDay.spark],
      day_min |-> [k \in 1..Len(points) |->
                     points[k].derivedPrices.usdPerDay.sparkMin],
      day_max |-> [k \in 1..Len(points) |->
                     points[k].derivedPrices.usdPerDay.sparkMax],
      usd_mmbtu |-> [k \in 1..Len(points) |->
                       points[k].derivedPrices.usdPerMMBtu.spark]]

\* pd.DataFrame accepts lists of one length only
SameLength(c) ==
  \A name \in DOMAIN c : Len(c[name]) = Len(c.ticker)

\* pd.DataFrame({...}): row k holds the k-th element of every list
DataFrame(c) ==
  [k \in 1..Len(c.ticker) |->
     [ticker |-> c.ticker[k], period_start |-> c.period_start[k],
      usd_day |-> c.usd_day[k], day_max |-> c.day_max[k],
      day_min |-> c.day_min[k], usd_mmbtu |-> c.usd_mmbtu[k],
      release_date |-> c.release_dates[k]]]

\* the cells after a call of fetch_historical_price_releases: the loop over
\* what it returned, the print of the list sizes and of the DataFrame (after
\* the first call only), and the DataFrame
flatten(returned, first) ==
  IF ~returned.given
    THEN [outcome |-> "TypeError", printed |-> <<>>, columns |-> NoColumns,
          historical_df |-> <<>>]
  ELSE
    LET releases == returned.value
        bad == FirstLacking(releases, {"contractId"})
        looped == SubSeq(releases, 1, bad - 1)
        c == column_lists(looped)
        sizes == IF first
                   THEN <<Line("{}", << <<Len(c.release_dates),
                                          Len(c.period_start), Len(c.ticker),
                                          Len(c.usd_day), Len(c.usd_mmbtu)>> >>)>>
                 ELSE <<>>
    IN IF bad <= Len(releases)
         THEN [outcome |-> "KeyError", printed |-> release_lines(looped),
               columns |-> c, historical_df |-> <<>>]
       ELSE IF ~SameLength(c)
         THEN [outcome |-> "ValueError",
               printed |-> release_lines(looped) \o sizes,
               columns |-> c, historical_df |-> <<>>]
       ELSE [outcome |-> "return",
             printed |-> release_lines(looped) \o sizes
                         \o (IF first THEN <<Line("{}", <<DataFrame(c)>>)>>
                             ELSE <<>>),
             columns |-> c, historical_df |-> DataFrame(c)]

RouteKeys == {"uuid", "loadPort", "dischargePort", "via"}

CostDatesLimit_one(scr) == 1

\* the release dates the route costs are fetched for: release_dates[:10] in
\* spark_api_example.py, release_dates[:1] in spark_price_releases.py
CostDatesLimit(scr) == IF scr = "spark_api_example" THEN 10 ELSE 1

NoRoutes == [route_uuid |-> "", release_dates |-> <<>>]

\* routes_sample / fetch_routes up to the loop over the release dates
list_routes_sample(scr, access_token, resp, opt) ==
  LET q == do_api_get_query(<<"/v1.0/routes">>, access_token, resp, opt)
      content == q.content
      before == IF scr = "spark_api_example" THEN <<>>
                ELSE <<Line(">>>> List the first 10 routes", <<>>)>>
  IN IF q.outcome # "return" THEN Propagate(q, before, NoRoutes)
     ELSE IF ~Has(content, "data") \/ ~Has(content.data, "routes")
       THEN Continue(q, before, <<>>, "KeyError", NoRoutes)
     ELSE
       LET routes == content.data.routes
           shown == IF scr = "spark_api_example" THEN routes
                    ELSE Take(routes, 10)
           bad == FirstLacking(shown, RouteKeys)
           lines == [k \in 1..(bad - 1) |->
                       Line("uuid={}, {} to {} via={})",
                            <<shown[k].uuid, shown[k].loadPort.name,
                              shown[k].dischargePort.name, shown[k].via>>)]
       IN IF bad <= Len(shown) \/ ~Has(content.data, "sparkReleaseDates")
            THEN Continue(q, before, lines, "KeyError", NoRoutes)
          ELSE
            LET release_dates == content.data.sparkReleaseDates
                after == IF scr = "spark_api_example"
                           THEN <<Line("release_dates={}", <<release_dates>>)>>
                         ELSE <<Line(">>>> I'm interested in the first route, I want to print the last released cost", <<>>)>>
            IN IF Len(routes) = 0
                 THEN Continue(q, before, lines \o after, "IndexError",
                               NoRoutes)
               ELSE Continue(q, before, lines \o after, "return",
                             [route_uuid |-> routes[1].uuid,
                              release_dates |->
                                Take(release_dates, CostDatesLimit(scr))])

\* one round of the loop over the release dates
fetch_route_cost(scr, access_token, route_uuid, release_date, resp, opt) ==
  LET q == do_api_get_query(
             <<"/v1.0/routes/", route_uuid, "?release-date=", release_date>>,
             access_token, resp, opt)
      ship_costs == q.content
  IN IF q.outcome # "return" THEN Propagate(q, <<>>, NoContent)
     ELSE IF scr = "spark_api_example"
       THEN Continue(q, <<>>,
                     <<Line("ship costs on {}={}", <<release_date, ship_costs>>)>>,
                     "return", ship_costs)
     ELSE IF ~Has(ship_costs, "data")
       THEN Continue(q, <<>>, <<Line("ship costs on {}", <<release_date>>)>>,
                     "KeyError", NoContent)
     ELSE Continue(q, <<>>,
                   << Line("ship costs on {}", <<release_date>>),
                      Line("{}", <<ship_costs.data>>) >>,
                   "return", ship_costs)

IntradayKeys == {"asOf", "periodName", "revision", "value"}

fetch_intraday(access_token, resp, opt) ==
  LET q == do_api_get_query(
             <<"/beta/intraday/live?contract=jkm-ttf&unit=usd-per-mmbtu">>,
             access_token, resp, opt)
      content == q.content
      before == <<Line(">>>> List last Intraday items (JKM-TTF / usb-per-mmbtu)",
                       <<>>)>>
  IN IF q.outcome # "return" THEN Propagate(q, before, NoContent)
     ELSE IF ~Has(content, "data")
       THEN Continue(q, before, <<>>, "KeyError", NoContent)
     ELSE
       LET bad == FirstLacking(content.data, IntradayKeys)
           lines == [k \in 1..(bad - 1) |->
                       Line("asOf={}, period={}, revision={}): {})",
                            <<content.data[k].asOf, content.data[k].periodName,
                              content.data[k].revision, content.data[k].value>>)]
       IN Continue(q, before, lines,
                   IF bad <= Len(content.data) THEN "KeyError" ELSE "return",
                   NoContent)

(***************************************************************************)
(* The fetching functions of the tutorials.                                *)
(***************************************************************************)
NoListing ==
  [tickers |-> <<>>, fobPort_names |-> <<>>, availablevia |-> <<>>,
   reldates |-> <<>>]

\* list_routes of the freight routes tutorial
list_routes(access_token, resp, opt) ==
  LET q == do_api_get_query(<<"/v1.0/routes/">>, access_token, resp, opt)
      content == q.content
      heading == <<Line(">>>> All the routes you can fetch", <<>>)>>
  IN IF q.outcome # "return" THEN Propagate(q, <<>>, NoListing)
     ELSE IF ~Has(content, "data") \/ ~Has(content.data, "routes")
       THEN Continue(q, <<>>, heading, "KeyError", NoListing)
     ELSE IF \/ FirstLacking(content.data.routes, {"uuid"})
                  <= Len(content.data.routes)
             \/ ~Has(content.data, "sparkReleaseDates")
       THEN Continue(q, <<>>, heading, "KeyError", NoListing)
     ELSE Continue(q, <<>>, heading, "return",
                   [NoListing EXCEPT
                      !.tickers = [k \in 1..Len(content.data.routes) |->
                                     content.data.routes[k].uuid],
                      !.reldates = content.data.sparkReleaseDates])

\* fetch_route_data of the freight routes tutorial
fetch_route_data(access_token, ticker, release, resp, opt) ==
  LET q == do_api_get_query(
             <<"/v1.0/routes/", ticker, "/", "?release-date=", release>>,
             access_token, resp, opt)
      content == q.content
  IN IF q.outcome # "return" THEN Propagate(q, <<>>, None)
     ELSE IF ~Has(content, "data")
       THEN Continue(q, <<>>, <<>>, "KeyError", None)
     ELSE Continue(q, <<>>,
                   <<Line(">>>> Get route information for {}", <<ticker>>)>>,
                   "return", returned_data(content))

FobPortKeys == {"uuid", "name", "availableViaPoints"}

\* list_netbacks of the netbacks tutorial
list_netbacks(access_token, resp, opt) ==
  LET q == do_api_get_query(<<"/v1.0/netbacks/reference-data/">>,
                            access_token, resp, opt)
      content == q.content
      heading == <<Line(">>>> All the routes you can fetch", <<>>)>>
  IN IF q.outcome # "return" THEN Propagate(q, <<>>, NoListing)
     ELSE IF \/ ~Has(content, "data") \/ ~Has(content.data, "staticData")
             \/ ~Has(content.data.staticData, "fobPorts")
       THEN Continue(q, <<>>, heading, "KeyError", NoListing)
     ELSE
       LET ports == content.data.staticData.fobPorts
       IN IF \/ FirstLacking(ports, FobPortKeys) <= Len(ports)
             \/ ~Has(content.data.staticData, "sparkReleases")
            THEN Continue(q, <<>>, heading, "KeyError", NoListing)
          ELSE Continue(q, <<>>, heading, "return",
                 [tickers |-> [k \in 1..Len(ports) |-> ports[k].uuid],
                  fobPort_names |-> [k \in 1..Len(ports) |-> ports[k].name],
                  availablevia |->
                    [k \in 1..Len(ports) |-> ports[k].availableViaPoints],
                  reldates |-> content.data.staticData.sparkReleases])

RECURSIVE via_index_from(_, _)
\* the loop over availablevia with its counter c: the counter of every entry
\* that is not empty
via_index_from(availablevia, c) ==
  IF Len(availablevia) = 0 THEN <<>>
  ELSE (IF Len(availablevia[1]) # 0 THEN <<c>> ELSE <<>>)
       \o via_index_from(Tail(availablevia), c + 1)

via_index_unfiltered(availablevia) == [k \in 1..Len(availablevia) |-> k - 1]

\* via_index after the loop (the counter starts at 0)
via_index(availablevia) == via_index_from(availablevia, 0)

NoAvailable ==
  [via_index |-> <<>>, port_list |-> <<>>, tick_list |-> <<>>,
   via_list |-> <<>>]

\* the filtered lists of available_df: list[v] is the element v + 1 of the
\* sequence that models list
available(l) ==
  LET v == via_index(l.availablevia)
  IN [via_index |-> v,
      port_list |-> [k \in 1..Len(v) |-> l.fobPort_names[v[k] + 1]],
      tick_list |-> [k \in 1..Len(v) |-> l.tickers[v[k] + 1]],
      via_list |-> [k \in 1..Len(v) |-> l.availablevia[v[k] + 1]]]

\* the positions (from 1) of the ports with via points whose name is port:
\* the rows of available_df that the tutorial selects by name
CallablePorts(l, port) ==
  { k \in 1..Len(l.fobPort_names) :
      Len(l.availablevia[k]) # 0 /\ l.fobPort_names[k] = port }

netback_query_params_via_first(ticker, release, via) ==
  <<"?fob-port=", ticker>>
  \o (IF via.given THEN <<"&via-point=", via.value>> ELSE <<>>)
  \o (IF release.given THEN <<"&release-date=", release.value>> ELSE <<>>)

\* the query string of fetch_netback
netback_query_params(ticker, release, via) ==
  <<"?fob-port=", ticker>>
  \o (IF release.given THEN <<"&release-date=", release.value>> ELSE <<>>)
  \o (IF via.given THEN <<"&via-point=", via.value>> ELSE <<>>)

\* fetch_netback of the netbacks tutorial
fetch_netback(access_token, ticker, release, via, resp, opt) ==
  LET q == do_api_get_query(
             <<"/v1.0/netbacks/">> \o netback_query_params(ticker, release, via),
             access_token, resp, opt)
      content == q.content
  IN IF q.outcome # "return" THEN Propagate(q, <<>>, None)
     ELSE IF ~Has(content, "data")
       THEN Continue(q, <<>>, <<>>, "KeyError", None)
     ELSE Continue(q, <<>>, <<>>, "return", returned_data(content))

(***************************************************************************)
(* The inputs of a run: the command line, the credentials file, the        *)
(* environment, and whether the interpreter runs with assertions removed   *)
(* (python -O).                                                            *)
(***************************************************************************)
Id == <<"i", "d">>
Secret == <<"s", "e", "c", "r", "e", "t">>

File(text) == [isfile |-> TRUE, content |-> text]
NoFile == [isfile |-> FALSE, content |-> <<>>]

Files ==
  { NoFile,
    File(HeaderCamel \o <<"\n">> \o Id \o <<",">> \o Secret \o <<"\n">>),
    File(HeaderCamel \o <<"\n">> \o Id \o <<",">> \o Secret),
    File(HeaderSnake \o <<"\n">> \o Id \o <<",">> \o Secret \o <<"\n">>),
    File(Id \o <<",">> \o Secret \o <<"\n">>),
    File(HeaderCamel \o <<"\n">> \o Id \o <<",">> \o Secret \o <<",">> \o Id
         \o <<"\n">>),
    File(HeaderCamel \o <<"\n">>),
    File(<<"#">> \o HeaderCamel \o <<"\n">> \o Id \o <<",">> \o Secret),
    File(<<>>) }

EnvNames == {"SPARK_CLIENT_ID", "SPARK_CLIENT_SECRET", "CLIENT_SECRET"}
Set(value) == [set |-> TRUE, value |-> value]
Unset == [set |-> FALSE, value |-> <<>>]

EmptyEnv == [name \in EnvNames |-> Unset]

Envs ==
  { EmptyEnv,
    [EmptyEnv EXCEPT !["SPARK_CLIENT_ID"] = Set(Id),
                     !["SPARK_CLIENT_SECRET"] = Set(Secret)],
    [EmptyEnv EXCEPT !["SPARK_CLIENT_ID"] = Set(Id),
                     !["CLIENT_SECRET"] = Set(Secret)],
    [EmptyEnv EXCEPT !["SPARK_CLIENT_ID"] = Set(Id),
                     !["SPARK_CLIENT_SECRET"] = Set(<<>>)],
    [EmptyEnv EXCEPT !["SPARK_CLIENT_SECRET"] = Set(Secret)] }

(***************************************************************************)
(* The state of a run.                                                     *)
(***************************************************************************)
VARIABLES
  script,        \* the script that runs
  optimized,     \* TRUE when the interpreter removes assert statements
  argv,          \* the command-line arguments after the script name
  file,          \* the credentials file at the path the script reads
  env,           \* the environment variables
  pc,            \* the statement of the script that runs next
  credentials,   \* (client_id, client_secret) of main
  access_token,  \* access_token of main
  tickers,       \* tickers of main
  i,             \* the position of the running loop in its list
  routes,        \* route_uuid and the release dates of the cost loop
  listing,       \* what list_routes / list_netbacks of a tutorial returned
  call,          \* the arguments of a direct call of a fetch function
  my_dict,       \* what the last fetch function that returned handed back
  available_df,  \* the filtered lists of the netbacks tutorial
  columns,       \* the column lists of the historical prices tutorial
  historical_df, \* the rows of its DataFrame
  requests,      \* every HTTP request sent so far, in order
  token_response, \* the server's answer to the token request
  response,      \* the server's answer to the last request
  output,        \* the lines printed so far
  exit_code,     \* the exit code of the process, NotExited while it runs
  error          \* the exception that ended the run, "" if none

vars == <<script, optimized, argv, file, env, pc, credentials, access_token,
          tickers, i, routes, listing, call, my_dict, available_df, columns,
          historical_df,
          requests, token_response, response, output, exit_code, error>>

\* what the tutorials compute from the answers
results == <<my_dict, available_df, columns, historical_df>>

\* what a run is started with; main calls the fetch functions itself, so a
\* run has no call of its own either
inputs == <<script, optimized, argv, file, env, call>>

NotExited == -1

Init ==
  /\ script \in Scripts
  /\ optimized \in BOOLEAN
  /\ \/ /\ script \in CommandLineScripts
        /\ argv = <<>> /\ file = NoFile /\ env \in Envs
     \/ /\ script \in CommandLineScripts
        /\ argv = <<"client_credentials.csv">> /\ file \in Files
        /\ env = EmptyEnv
     \/ /\ script \in TutorialScripts
        /\ argv = <<>> /\ file \in Files /\ env = EmptyEnv
  /\ pc = "main"
  /\ credentials = NoCredentials
  /\ access_token = NoToken
  /\ tickers = <<>>
  /\ i = 0
  /\ routes = NoRoutes
  /\ listing = NoListing
  /\ call = NoCall
  /\ my_dict = None
  /\ available_df = NoAvailable
  /\ columns = NoColumns
  /\ historical_df = <<>>
  /\ requests = <<>>
  /\ token_response = NoResponse
  /\ response = NoResponse
  /\ output = <<>>
  /\ exit_code = NotExited
  /\ error = ""

Effect_retrying(result, next) ==
  /\ requests' = requests \o result.sent
  /\ output' = output \o result.printed
  /\ IF result.outcome = "return"
       THEN pc' = next /\ exit_code' = NotExited /\ error' = ""
     ELSE IF result.outcome = "URLError"
       THEN pc' = pc /\ exit_code' = NotExited /\ error' = ""
     ELSE pc' = "terminated" /\ exit_code' = 1 /\ error' = result.outcome

Effect_ignoring_failure(result, next) ==
  /\ requests' = requests \o result.sent
  /\ output' = output \o result.printed
  /\ pc' = IF next = "" THEN "done" ELSE next
  /\ exit_code' = NotExited
  /\ error' = IF result.outcome = "return" THEN "" ELSE result.outcome

\* the effect of a call on the run: what it sent and printed, and either the
\* next statement or the end of the process (exit code 1 both for sys.exit(1)
\* and for an uncaught exception)
Effect(result, next) ==
  /\ requests' = requests \o result.sent
  /\ output' = output \o result.printed
  /\ IF result.outcome = "return"
       THEN pc' = next /\ exit_code' = NotExited /\ error' = ""
     ELSE pc' = "terminated" /\ exit_code' = 1 /\ error' = result.outcome

AfterAuthentication_with_a_new_token == "get_access_token"

\* the statement after the authentication
AfterAuthentication ==
  IF script = "freight_routes" THEN "list_routes"
  ELSE IF script = "netbacks" THEN "list_netbacks"
  ELSE "list_contracts"

AfterCredentials_unauthenticated == AfterAuthentication

\* the statement after retrieve_credentials
AfterCredentials == "get_access_token"

AfterContracts_skipping_empty(scr, listed) ==
  IF Len(listed) = 0 THEN "routes" ELSE "fetch_latest_price_releases"

\* the statement after list_contracts: the loop over the tickers in
\* spark_api_example.py, which an empty list ends at once, and the fetch for
\* one ticker in the other scripts
AfterContracts(scr, listed) ==
  IF scr = "spark_api_example" /\ Len(listed) = 0
    THEN "fetch_historical_price_releases"
  ELSE "fetch_latest_price_releases"

\* main (or the tutorial) up to and including retrieve_credentials(file_path)
RetrieveCredentials ==
  /\ pc = "main"
  /\ LET r == retrieve_credentials(script, FilePath(script, argv), file, env)
         running == IF script \in CommandLineScripts
                      THEN <<Line(">>>> Running Spark API Python sample...",
                                  <<>>)>>
                    ELSE <<>>
     IN /\ credentials' = r.value
        /\ Effect(Unsent(IF r.raised THEN r.error ELSE "return",
                         running \o r.printed, NoContent),
                  AfterCredentials)
  /\ UNCHANGED <<results, inputs, access_token, tickers, i, routes, listing,
                 token_response, response>>


\* access_token = get_access_token(client_id, client_secret), and in the
\* tutorials print(access_token)
GetAccessToken ==
  /\ pc = "get_access_token"
  /\ \E resp \in Answers(TokenDocuments) :
       LET r == get_access_token(script, credentials.client_id,
                                 credentials.client_secret, resp, optimized)
           shown == IF script \in TutorialScripts /\ r.outcome = "return"
                      THEN <<Line("{}", <<r.content>>)>>
                    ELSE <<>>
       IN /\ access_token' = r.content
          /\ token_response' = resp
          /\ response' = resp
          /\ Effect(Continue(r, <<>>, shown, r.outcome, r.content),
                    AfterAuthentication)
  /\ UNCHANGED <<results, inputs, credentials, tickers, i, routes, listing>>

\* tickers = list_contracts(access_token), and in the tutorial print(tickers)
ListContracts ==
  /\ pc = "list_contracts"
  /\ \E resp \in Answers(ContractsDocuments) :
       LET r == list_contracts(script, access_token, resp, optimized)
           shown == IF script \in TutorialScripts /\ r.outcome = "return"
                      THEN <<Line("{}", <<r.content>>)>>
                    ELSE <<>>
       IN /\ tickers' = r.content
          /\ response' = resp
          /\ Effect(Continue(r, <<>>, shown, r.outcome, r.content),
                    AfterContracts(script, r.content))
  /\ i' = IF script = "historical_prices" THEN 3 ELSE 1
  /\ UNCHANGED <<results, inputs, credentials, access_token, routes, listing,
                 token_response>>

\* spark_api_example.py: one round of
\*   for ticker in tickers: get_latest_price_releases(access_token, ticker)
\* spark_price_releases.py:
\*   fetch_latest_price_releases(access_token, tickers[0])
\* historical prices tutorial:
\*   my_dict = fetch_latest_price_releases(access_token, tickers[2])
\*   and the loop that prints the spark prices of my_dict
FetchLatestPriceReleases ==
  /\ pc = "fetch_latest_price_releases"
  /\ IF i > Len(tickers)
       THEN /\ Effect(Unsent("IndexError", <<>>, NoContent), "")
            /\ UNCHANGED <<i, response, my_dict>>
     ELSE \E resp \in Answers(LatestDocuments) :
       LET r == fetch_latest_price_releases(script, access_token, tickers[i],
                                            resp, optimized)
           again == script = "spark_api_example" /\ i < Len(tickers)
           \* the cell of the tutorial that reads my_dict["data"][0]
           read == script = "historical_prices" /\ r.outcome = "return"
           shown == IF read /\ r.content.given
                      THEN [k \in 1..Len(r.content.value.data[1].dataPoints) |->
                              Line("{}", <<spark_prices(
                                     r.content.value.data[1].dataPoints[k])>>)]
                    ELSE <<>>
       IN /\ response' = resp
          /\ my_dict' = IF r.outcome = "return" THEN r.content ELSE my_dict
          /\ i' = IF r.outcome = "return" /\ again THEN i + 1 ELSE i
          /\ Effect(Continue(r, <<>>, shown,
                             IF read /\ ~r.content.given THEN "TypeError"
                             ELSE r.outcome,
                             r.content),
                    IF again THEN "fetch_latest_price_releases"
                    ELSE "fetch_historical_price_releases")
  /\ UNCHANGED <<inputs, credentials, access_token, tickers, routes, listing,
                 token_response, available_df, columns, historical_df>>

\* the ticker (from 1) and the limit of the historical price releases: the
\* command-line scripts fetch tickers[0] with limit 4, the tutorial
\* tickers[2] with limit 10 and then tickers[6] with limit 1000
HistoricalTicker == IF script = "historical_prices" THEN i ELSE 1
HistoricalLimit ==
  IF script # "historical_prices" THEN 4 ELSE IF i = 3 THEN 10 ELSE 1000

\* fetch_historical_price_releases(access_token, <ticker>, limit=<limit>)
FetchHistoricalPriceReleases ==
  /\ pc = "fetch_historical_price_releases"
  /\ IF HistoricalTicker > Len(tickers)
       THEN /\ Effect(Unsent("IndexError", <<>>, NoContent), "")
            /\ UNCHANGED <<i, response, my_dict, columns, historical_df>>
     ELSE \E resp \in Answers(HistoricalDocuments(script)) :
       LET r == fetch_historical_price_releases(
                  script, access_token, tickers[HistoricalTicker],
                  HistoricalLimit, NoOffset, resp, optimized)
           again == script = "historical_prices" /\ i = 3
           \* print(my_ticker) before the second call of the tutorial
           before == IF script = "historical_prices" /\ i = 7
                       THEN <<Line("{}", <<tickers[3]>>)>> ELSE <<>>
           \* the cells of the tutorial that flatten what the call returned
           flattens == script = "historical_prices" /\ r.outcome = "return"
           flat == flatten(r.content, again)
       IN /\ response' = resp
          /\ my_dict' = IF r.outcome = "return" THEN r.content ELSE my_dict
          /\ columns' = IF flattens THEN flat.columns ELSE columns
          /\ historical_df' = IF flattens THEN flat.historical_df
                              ELSE historical_df
          /\ i' = IF r.outcome = "return" /\ again THEN 7 ELSE i
          /\ Effect(Continue(r, before, IF flattens THEN flat.printed ELSE <<>>,
                             IF flattens THEN flat.outcome ELSE r.outcome,
                             r.content),
                    IF again THEN "fetch_historical_price_releases"
                    ELSE IF script = "historical_prices" THEN "done"
                    ELSE "routes")
  /\ UNCHANGED <<inputs, credentials, access_token, tickers, routes, listing,
                 token_response, available_df>>

\* the statement after the routes: the intraday data in
\* spark_price_releases.py, the final message in spark_api_example.py
AfterRoutes == IF script = "spark_api_example" THEN "done" ELSE "fetch_intraday"

\* routes_sample / fetch_routes up to the loop over the release dates
ListRoutesSample ==
  /\ pc = "routes"
  /\ \E resp \in Answers(RoutesDocuments) :
       LET r == list_routes_sample(script, access_token, resp, optimized)
       IN /\ routes' = r.content
          /\ response' = resp
          /\ Effect(r, IF Len(r.content.release_dates) = 0 THEN AfterRoutes
                       ELSE "route_costs")
  /\ i' = 1
  /\ UNCHANGED <<results, inputs, credentials, access_token, tickers, listing,
                 token_response>>

\* one round of the loop over the release dates of routes_sample /
\* fetch_routes
FetchRouteCost ==
  /\ pc = "route_costs"
  /\ \E resp \in Answers(RouteCostDocuments(script)) :
       LET r == fetch_route_cost(script, access_token, routes.route_uuid,
                                 routes.release_dates[i], resp, optimized)
           again == i < Len(routes.release_dates)
       IN /\ response' = resp
          /\ i' = IF r.outcome = "return" /\ again THEN i + 1 ELSE i
          /\ Effect(r, IF again THEN "route_costs" ELSE AfterRoutes)
  /\ UNCHANGED <<results, inputs, credentials, access_token, tickers, routes, listing,
                 token_response>>

\* fetch_intraday(access_token) of spark_price_releases.py
FetchIntraday ==
  /\ pc = "fetch_intraday"
  /\ \E resp \in Answers(IntradayDocuments) :
       LET r == fetch_intraday(access_token, resp, optimized)
       IN /\ response' = resp
          /\ Effect(r, "done")
  /\ UNCHANGED <<results, inputs, credentials, access_token, tickers, i, routes,
                 listing, token_response>>

\* freight routes tutorial:
\*   tickers, reldates, dicto1 = list_routes(access_token)
ListRoutes ==
  /\ pc = "list_routes"
  /\ \E resp \in Answers(RoutesDocuments) :
       LET r == list_routes(access_token, resp, optimized)
           shown == IF r.outcome = "return"
                      THEN << Line("{}", <<Len(r.content.tickers)>>),
                              Line("{}", <<Len(r.content.reldates)>>),
                              Line("{}", <<resp.body.json.data>>) >>
                    ELSE <<>>
           \* the cell that reads uuid, via and both ports of every route
           flattened == \/ r.outcome # "return"
                        \/ FirstLacking(resp.body.json.data.routes, RouteKeys)
                             > Len(resp.body.json.data.routes)
       IN /\ listing' = r.content
          /\ response' = resp
          /\ Effect(Continue(r, <<>>, shown,
                             IF flattened THEN r.outcome ELSE "KeyError",
                             r.content),
                    "fetch_route_data")
  /\ UNCHANGED <<results, inputs, credentials, access_token, tickers, i, routes,
                 token_response>>

\* freight routes tutorial:
\*   my_dict = fetch_route_data(access_token, tickers[2], release=reldates[2])
FetchRouteData ==
  /\ pc = "fetch_route_data"
  /\ IF Len(listing.tickers) < 3 \/ Len(listing.reldates) < 3
       THEN /\ Effect(Unsent("IndexError", <<>>, NoContent), "")
            /\ UNCHANGED <<response, my_dict>>
     ELSE \E resp \in Answers(RouteDataDocuments) :
       LET r == fetch_route_data(access_token, listing.tickers[3],
                                 listing.reldates[3], resp, optimized)
       IN /\ response' = resp
          /\ my_dict' = IF r.outcome = "return" THEN r.content ELSE my_dict
          /\ Effect(r, "done")
  /\ UNCHANGED <<available_df, columns, historical_df>>
  /\ UNCHANGED <<inputs, credentials, access_token, tickers, i, routes,
                 listing, token_response>>

\* netbacks tutorial:
\*   tickers, fobPort_names, availablevia, reldates, dicto1 =
\*     list_netbacks(access_token)
\* the cells that print the four lists, and the cell that filters them
ListNetbacks ==
  /\ pc = "list_netbacks"
  /\ \E resp \in Answers(ReferenceDocuments) :
       LET r == list_netbacks(access_token, resp, optimized)
           shown == IF r.outcome = "return"
                      THEN << Line("{}", <<r.content.reldates>>),
                              Line("{}", <<r.content.tickers>>),
                              Line("{}", <<r.content.availablevia>>),
                              Line("{}", <<r.content.fobPort_names>>) >>
                    ELSE <<>>
       IN /\ listing' = r.content
          /\ available_df' = IF r.outcome = "return" THEN available(r.content)
                             ELSE available_df
          /\ response' = resp
          /\ Effect(Continue(r, <<>>, shown, r.outcome, r.content),
                    "fetch_netback")
  /\ i' = 0
  /\ UNCHANGED <<my_dict, columns, historical_df, inputs, credentials,
                 access_token, tickers, routes, token_response>>

\* netbacks tutorial, the four calls of fetch_netback: for Cove Point with
\* its first via point (i = 0), then for Sabine Pass with its via points
\* 0, 1 and 2 (i = 1, 2, 3); each for the release date reldates[0]
FetchNetback ==
  /\ pc = "fetch_netback"
  /\ LET port == IF i = 0 THEN "Cove Point" ELSE "Sabine Pass"
         rows == CallablePorts(listing, port)
         ti == CHOOSE k \in rows : TRUE
         via == IF i = 0 THEN 1 ELSE i
     IN IF Cardinality(rows) # 1
          THEN /\ Effect(Unsent("TypeError", <<>>, NoContent), "")
               /\ UNCHANGED <<i, response, my_dict>>
        ELSE IF Len(listing.reldates) = 0 \/ Len(listing.availablevia[ti]) < via
          THEN /\ Effect(Unsent("IndexError", <<>>, NoContent), "")
               /\ UNCHANGED <<i, response, my_dict>>
        ELSE \E resp \in Answers(NetbackDocuments) :
          LET r == fetch_netback(access_token, listing.tickers[ti],
                                 Given(listing.reldates[1]),
                                 Given(listing.availablevia[ti][via]),
                                 resp, optimized)
              shown == IF i = 0 /\ r.outcome = "return"
                         THEN << Line("{}", <<listing.tickers[ti]>>),
                                 Line("{}", <<listing.reldates[1]>>) >>
                       ELSE <<>>
          IN /\ response' = resp
             /\ my_dict' = IF r.outcome = "return" THEN r.content ELSE my_dict
             /\ i' = IF r.outcome = "return" /\ i < 3 THEN i + 1 ELSE i
             /\ Effect(Continue(r, shown, <<>>, r.outcome, r.content),
                       IF i < 3 THEN "fetch_netback" ELSE "done")
  /\ UNCHANGED <<inputs, credentials, access_token, tickers, routes, listing,
                 token_response, available_df, columns, historical_df>>

FinalMessage ==
  IF script = "spark_api_example" THEN ">>>> Done!"
  ELSE ">>>> Well done, you successfully ran your first queries!"

\* the end of the script: the final message of main, and the process ends
\* with exit code 0
Done ==
  /\ pc = "done"
  /\ pc' = "terminated"
  /\ exit_code' = 0
  /\ output' = output \o (IF script \in CommandLineScripts
                            THEN <<Line(FinalMessage, <<>>)>> ELSE <<>>)
  /\ UNCHANGED <<results, inputs, credentials, access_token, tickers, i, routes,
                 listing, requests, token_response, response, error>>

Next ==
  \/ RetrieveCredentials
  \/ GetAccessToken
  \/ ListContracts
  \/ FetchLatestPriceReleases
  \/ FetchHistoricalPriceReleases
  \/ ListRoutesSample
  \/ FetchRouteCost
  \/ FetchIntraday
  \/ ListRoutes
  \/ FetchRouteData
  \/ ListNetbacks
  \/ FetchNetback
  \/ Done

Spec == Init /\ [][Next]_vars

(***************************************************************************)
(* A run of main of a command-line script whose every step is eventually   *)
(* taken: the script is one thread that runs statement after statement,    *)
(* and every request it sends is eventually answered or fails.  A step is  *)
(* possible in every state but the terminated ones, so the weak fairness   *)
(* of MainNext says that a run has ended or takes steps again and again;   *)
(* it is spelled out in that form for the steps that wait for an answer.   *)
(***************************************************************************)
MainInit == Init /\ script \in CommandLineScripts

MainNext ==
  \/ RetrieveCredentials
  \/ GetAccessToken
  \/ ListContracts
  \/ FetchLatestPriceReleases
  \/ FetchHistoricalPriceReleases
  \/ ListRoutesSample
  \/ FetchRouteCost
  \/ FetchIntraday
  \/ Done

\* a run has ended, or goes on taking steps
Proceeds == []<>(pc = "terminated") \/ []<><<MainNext>>_vars

FairMain == MainInit /\ [][MainNext]_vars /\ WF_vars(Done) /\ Proceeds

(***************************************************************************)
(* Direct calls of the fetch functions that take optional arguments, by a  *)
(* caller that holds an access token: main itself passes no offset, and    *)
(* the netbacks tutorial always passes a release and a via point.          *)
(***************************************************************************)
\* the limits and the offsets a caller may pass, None included
Limits == {None, Given(0), Given(4), Given(10)}
Offsets == {NoOffset, Given(0), Given(1), Given(10)}

CallsInit ==
  /\ script \in Scripts \ {"freight_routes"}
  /\ optimized \in BOOLEAN
  /\ argv = <<>> /\ file = NoFile /\ env = EmptyEnv
  /\ pc = "call"
  /\ credentials = NoCredentials
  /\ access_token \in Tokens
  /\ tickers = <<>>
  /\ i = 0
  /\ routes = NoRoutes
  /\ listing = NoListing
  /\ call = NoCall
  /\ my_dict = None
  /\ available_df = NoAvailable
  /\ columns = NoColumns
  /\ historical_df = <<>>
  /\ requests = <<>>
  /\ token_response = NoResponse
  /\ response = NoResponse
  /\ output = <<>>
  /\ exit_code = NotExited
  /\ error = ""

\* fetch_historical_price_releases(access_token, ticker[, limit][, offset])
CallFetchHistoricalPriceReleases ==
  /\ pc = "call"
  /\ script # "netbacks"
  /\ \E ticker \in {TickerId(1), TickerId(2)}, limit \in Limits,
        offset \in Offsets, resp \in Answers(HistoricalDocuments(script)) :
       LET r == fetch_historical_price_releases(
                  script, access_token, ticker,
                  IF limit.given THEN limit.value ELSE DefaultLimit,
                  offset, resp, optimized)
       IN /\ call' = [function |-> "fetch_historical_price_releases",
                      ticker |-> ticker, limit |-> limit, offset |-> offset]
          /\ response' = resp
          /\ my_dict' = IF r.outcome = "return" THEN r.content ELSE my_dict
          /\ Effect(r, "returned")
  /\ UNCHANGED <<script, optimized, argv, file, env, credentials, access_token,
                 tickers, i, routes, listing, available_df, columns,
                 historical_df, token_response>>

\* fetch_netback(access_token, ticker, release, via)
CallFetchNetback ==
  /\ pc = "call"
  /\ script = "netbacks"
  /\ \E ticker \in {"fob-2", "fob-3"},
        release \in {None, Given(ReleaseDate(1)), Given(ReleaseDate(2))},
        via \in {None, Given("cogh"), Given("suez")},
        resp \in Answers(NetbackDocuments) :
       LET r == fetch_netback(access_token, ticker, release, via, resp,
                              optimized)
       IN /\ call' = [function |-> "fetch_netback", ticker |-> ticker,
                      release |-> release, via |-> via]
          /\ response' = resp
          /\ my_dict' = IF r.outcome = "return" THEN r.content ELSE my_dict
          /\ Effect(r, "returned")
  /\ UNCHANGED <<script, optimized, argv, file, env, credentials, access_token,
                 tickers, i, routes, listing, available_df, columns,
                 historical_df, token_response>>

CallsNext ==
  \/ CallFetchHistoricalPriceReleases
  \/ CallFetchNetback

Calls == CallsInit /\ [][CallsNext]_vars

(***************************************************************************)
(* Properties.                                                             *)
(***************************************************************************)
Last(seq) == seq[Len(seq)]

Gets == { k \in 1..Len(requests) : requests[k].method = "GET" }
Posts == { k \in 1..Len(requests) : requests[k].method = "POST" }

\* the token endpoint has answered with a body holding both members
TokenDocumentReceived ==
  /\ token_response.reachable
  /\ token_response.body.valid
  /\ Has(token_response.body.json, "accessToken")
  /\ Has(token_response.body.json, "expiresIn")

\* the last request got an HTTP error answer
HttpErrorAnswer ==
  /\ response.reachable
  /\ response.status \notin 200..299

\* the last two printed lines are the status code and the body of the answer
StatusAndBodyLogged ==
  /\ Len(output) >= 2
  /\ output[Len(output) - 1].text = "HTTP Error: "
  /\ output[Len(output) - 1].args = <<response.status>>
  /\ Last(output).text = "{}"
  /\ Last(output).args = <<response.body>>

FinalMessagePrinted ==
  \E k \in 1..Len(output) : output[k].text = FinalMessage

\* the member key of a serialized JSON object has the value value
HasMember(data, key, value) ==
  \E k \in 1..(Len(data) - 2) :
    data[k] = key /\ data[k + 1] = ": " /\ data[k + 2] = value

HasKey(data, key) ==
  \E k \in 1..(Len(data) - 1) : data[k] = key /\ data[k + 1] = ": "

\* C1: when the token endpoint answers 201 with a JSON body holding
\* accessToken and expiresIn, get_access_token returns exactly the
\* accessToken of that body, and the run goes on with it.
C1_TokenReturnedUnaltered ==
  (TokenDocumentReceived /\ token_response.status = 201)
    => /\ access_token = token_response.body.json.accessToken
       /\ Len(requests) = 1 => pc = AfterAuthentication

C1_Witness ==
  /\ TokenDocumentReceived
  /\ token_response.status = 201
  /\ Len(token_response.body.json.accessToken) > 5
  /\ access_token = token_response.body.json.accessToken
  /\ pc = AfterAuthentication

\* C2: when the token endpoint answers with any status other than 201, no
\* token is returned and no GET is issued afterwards.
C2_OtherStatusIsHardFailure ==
  (token_response.reachable /\ token_response.status # 201)
    => /\ access_token = NoToken
       /\ Gets = {}
       /\ pc = "terminated"

\* C3: the Authorization header of the token request is the scheme name
\* Basic followed by the base64 encoding of client_id:client_secret.
C3_BasicScheme ==
  \A k \in Posts :
    requests[k].headers["Authorization"] =
      <<"B", "a", "s", "i", "c", " ">>
      \o decode(b64encode(encode(credentials.client_id \o <<":">>
                                 \o credentials.client_secret)))

\* C4 as claimed: in every script the body of the token request holds
\* grantType = clientCredentials and a scopes member.
C4_ScopesInEveryScript ==
  \A k \in Posts :
    /\ HasMember(requests[k].data, "grantType", "clientCredentials")
    /\ HasKey(requests[k].data, "scopes")

\* C4 as amended: in every script the body of the token request holds
\* grantType = clientCredentials; it holds a scopes member, with the scope
\* string the script requests, in every script but spark_price_releases.py,
\* whose body holds grantType only.
C4_ScopesButInPriceReleases ==
  \A k \in Posts :
    /\ HasMember(requests[k].data, "grantType", "clientCredentials")
    /\ script = "spark_price_releases"
         => requests[k].data = <<"{", "grantType", ": ", "clientCredentials", "}">>
    /\ script = "netbacks"
         => HasMember(requests[k].data, "scopes",
                      "read:netbacks,read:access,read:prices,read:routes")
    /\ script \in {"spark_api_example", "historical_prices", "freight_routes"}
         => HasMember(requests[k].data, "scopes",
                      "read:lng-freight-prices,read:routes")

C4_Witness ==
  /\ script = "spark_price_releases"
  /\ Posts # {}
  /\ ~HasKey(requests[1].data, "scopes")

\* C5: every GET carries Authorization: Bearer <token>, the token being the
\* access token the token exchange of the run returned, and
\* Accept: application/json.
C5_BearerOnEveryGet ==
  \A k \in Gets :
    /\ TokenDocumentReceived
    /\ requests[k].headers["Authorization"] =
         Bearer \o token_response.body.json.accessToken
    /\ requests[k].headers["Accept"] = "application/json"

C5_Witness ==
  /\ Cardinality(Gets) >= 2
  /\ Len(access_token) > 5
  /\ \A k \in Gets : requests[k].headers["Authorization"] = Bearer \o access_token

\* C6: when a resource GET is answered with any status other than 200, the
\* helper returns nothing: the run ends there with an error and its caller
\* prints nothing.
C6_OtherStatusFailsGet ==
  (Gets # {} /\ response.reachable /\ response.status # 200)
    => /\ pc = "terminated"
       /\ error # ""

\* C7: no token POST before the credentials are resolved, no GET before the
\* token exchange has returned a token: the requests of a run are one POST
\* with the resolved credentials, then GETs only.
C7_ResolveThenTokenThenFetch ==
  /\ requests # <<>>
       => /\ credentials # NoCredentials
          /\ requests[1].method = "POST"
          /\ requests[1].headers["Authorization"] =
               token_request_authorization(credentials.client_id,
                                           credentials.client_secret)
  /\ \A k \in 2..Len(requests) : requests[k].method = "GET"
  /\ Len(requests) >= 2
       => /\ TokenDocumentReceived
          /\ access_token = token_response.body.json.accessToken
          /\ access_token # NoToken

C7_Witness ==
  /\ Len(requests) >= 3
  /\ requests[1].method = "POST"
  /\ requests[3].method = "GET"

\* C8: on an HTTP error answer to a POST or a GET the process prints the
\* status code and the body and ends with exit code 1; it sends no further
\* request.
C8_HttpErrorExits ==
  [][ /\ (requests' # requests /\ HttpErrorAnswer')
         => /\ pc' = "terminated"
            /\ exit_code' = 1
            /\ StatusAndBodyLogged'
      /\ pc = "terminated" => requests' = requests ]_vars

C8_Witness ==
  /\ HttpErrorAnswer
  /\ Len(requests) >= 2
  /\ StatusAndBodyLogged
  /\ exit_code = 1

\* a failure of one of the three kinds has ended the run
CredentialFailure == error # "" /\ requests = <<>> /\ credentials = NoCredentials
TransportFailure == error = "URLError"
HttpFailure == error = "exit"
ShapeFailure == error \in {"KeyError", "IndexError", "TypeError", "JSONDecodeError"}

\* C9 as claimed: every failure is terminal, and a transport failure and a
\* non-2xx failure alike are logged with the status code and the body.
C9_TransportFailureLogged ==
  /\ error # "" => pc = "terminated" /\ exit_code = 1 /\ ~FinalMessagePrinted
  /\ (TransportFailure \/ HttpFailure) => StatusAndBodyLogged

\* C9 as amended: after a failure of any kind the run sends no further
\* request and never prints its final message; a non-2xx failure is logged
\* with the status code and the body, a transport failure is not: it ends
\* the run as an uncaught error, without a status code or a body in the
\* output.
C9_FailuresAreTerminal ==
  /\ [](/\ error # ""
             => pc = "terminated" /\ exit_code = 1 /\ ~FinalMessagePrinted
        /\ HttpFailure => StatusAndBodyLogged
        /\ TransportFailure => ~StatusAndBodyLogged)
  /\ [][ error # "" => requests' = requests /\ output' = output ]_vars

C9_Witness ==
  /\ TransportFailure
  /\ Len(requests) >= 2
  /\ ~StatusAndBodyLogged
  /\ pc = "terminated"

\* C10: a call of a query helper sends exactly one request, and after a
\* failed request nothing is sent again.
C10_NoRetry ==
  [][ /\ \/ requests' = requests
         \/ /\ Len(requests') = Len(requests) + 1
            /\ SubSeq(requests', 1, Len(requests)) = requests
      /\ (response'.reachable # response.reachable
          \/ response'.status # response.status)
           => Len(requests') = Len(requests) + 1
      /\ error # "" => requests' = requests ]_vars

C10_Witness ==
  /\ error \in {"exit", "URLError", "AssertionError"}
  /\ Len(requests) >= 2
  /\ \A k \in 1..(Len(requests) - 1) : requests[k] # Last(requests)

\* C11: a run sends at most one token POST, and exactly one once it has got
\* past the credentials; every GET carries the token that POST obtained,
\* whatever its lifetime, and the token held by the caller never changes once
\* a GET has been sent.
C11_OneTokenPerRun ==
  /\ [](/\ Cardinality(Posts) <= 1
        /\ (pc \notin {"main", "get_access_token"} /\ ~CredentialFailure)
             => Posts = {1}
        /\ \A k \in Gets :
             requests[k].headers["Authorization"] = Bearer \o access_token)
  /\ [][ requests # <<>>
           => /\ access_token' = access_token
              /\ token_response' = token_response ]_vars

C11_Witness ==
  /\ Cardinality(Gets) >= 3
  /\ Posts = {1}
  /\ token_response.body.json.expiresIn = 0
  /\ \A k \in Gets :
       requests[k].headers["Authorization"] = Bearer \o access_token

\* the run reads its credentials from the file / from the environment, and
\* retrieve_credentials has run
ReadsFile == FilePath(script, argv).given /\ pc # "main"
ReadsEnvironment == ~FilePath(script, argv).given /\ pc # "main"

\* the k-th line of the credentials file, without its line terminator
FileLine(k) == replace_newline(readline(file.content, k))

\* C12: given a file whose first line is the header clientId,clientSecret
\* and whose second line is id,secret, retrieve_credentials returns exactly
\* (id, secret), in every script.
C12_ExactPair ==
  (/\ ReadsFile /\ file.isfile
   /\ FileLine(1) = HeaderCamel
   /\ Len(split(FileLine(2), ",")) = 2)
    => credentials = [client_id |-> split(FileLine(2), ",")[1],
                      client_secret |-> split(FileLine(2), ",")[2]]

\* C13: with no file path, retrieve_credentials returns
\* (SPARK_CLIENT_ID, SPARK_CLIENT_SECRET) exactly when both are set and not
\* empty; otherwise it raises and the run sends no request.
C13_FromEnvironment ==
  ReadsEnvironment
    => LET id == env["SPARK_CLIENT_ID"]
           secret == env["SPARK_CLIENT_SECRET"]
       IN IF /\ id.set /\ id.value # <<>>
             /\ secret.set /\ secret.value # <<>>
            THEN /\ credentials = [client_id |-> id.value,
                                   client_secret |-> secret.value]
                 /\ ~CredentialFailure
          ELSE /\ credentials = NoCredentials
               /\ error = "RuntimeError"
               /\ pc = "terminated"
               /\ requests = <<>>

C13_Witness ==
  /\ ReadsEnvironment
  /\ credentials = [client_id |-> env["SPARK_CLIENT_ID"].value,
                    client_secret |-> env["SPARK_CLIENT_SECRET"].value]
  /\ credentials # NoCredentials
  /\ requests # <<>>

\* the credentials file is missing or malformed: no file, a first line that
\* is not a credentials header, or a data line that does not split in two
IsHeader(line) == line \in {HeaderCamel, HeaderSnake}
TwoFields == Len(split(FileLine(2), ",")) = 2

AcceptedHeader ==
  IF script = "spark_api_example" THEN Contains(HeaderCamel, FileLine(1))
  ELSE IsHeader(FileLine(1))

C15_DocumentedVariablesSuffice ==
  (/\ script = "spark_api_example" /\ ReadsEnvironment
   /\ env["SPARK_CLIENT_ID"].set /\ env["CLIENT_SECRET"].set)
    => /\ credentials = [client_id |-> env["SPARK_CLIENT_ID"].value,
                         client_secret |-> env["CLIENT_SECRET"].value]
       /\ ~CredentialFailure

\* the token endpoint has answered 201 with both members, and
\* get_access_token has returned
TokenGranted ==
  /\ TokenDocumentReceived
  /\ token_response.status = 201
  /\ pc \notin {"main", "get_access_token"}

\* C16 as claimed: get_access_token returns both values of the body, the
\* accessToken string and the expiresIn lifetime.
C16_ReturnsTokenAndLifetime ==
  TokenGranted
    => access_token = << token_response.body.json.accessToken,
                         token_response.body.json.expiresIn >>

\* C16 as amended: get_access_token reads both values of the body and
\* returns the accessToken string alone; the expiresIn lifetime is printed,
\* with the first five characters of the token, and not returned.
C16_ReturnsTokenPrintsLifetime ==
  TokenGranted
    => /\ access_token = token_response.body.json.accessToken
       /\ \E k \in 1..Len(output) :
            /\ output[k].text = ">>>> Successfully fetched an access token {}****, valid {} seconds."
            /\ output[k].args = << Take(access_token, 5),
                                   token_response.body.json.expiresIn >>

C16_Witness ==
  /\ TokenGranted
  /\ token_response.body.json.expiresIn = 3600
  /\ access_token = <<"a", "b", "c", "1", "2", "3">>
  /\ Gets # {}

\* a fetch function of a tutorial has returned to the cells that call it: the
\* requests of a tutorial are the token POST, the listing GET, and from the
\* third on the GETs of the functions that return content['data']; a
\* ValueError is raised by pd.DataFrame alone, after the function returned
FetchReturned ==
  /\ script \in TutorialScripts
  /\ Len(requests) >= 3
  /\ error \in {"", "ValueError"}

ContractsListed ==
  /\ script \notin {"freight_routes", "netbacks"}
  /\ Len(requests) = 2
  /\ error = ""

\* C18: list_contracts returns the id values of the contracts of the
\* response, one per contract and in the order of the response; an empty
\* list for empty data.
C18_TickersInResponseOrder ==
  ContractsListed
    => /\ Len(tickers) = Len(response.body.json.data)
       /\ \A k \in 1..Len(tickers) :
            tickers[k] = response.body.json.data[k].id

C18_Witness ==
  /\ ContractsListed
  /\ Len(tickers) = MaxTickers
  /\ tickers[1] = "spark1s"
  /\ tickers[2] = "spark2s"
  /\ \A k \in 1..Len(tickers) : tickers[k] = response.body.json.data[k].id

\* the flattening cells of the historical prices tutorial have run on what
\* fetch_historical_price_releases returned (the fourth and the fifth
\* request of that tutorial)
Flattened ==
  /\ script = "historical_prices"
  /\ Len(requests) >= 4
  /\ error \in {"", "ValueError"}
  /\ my_dict.given

RECURSIVE owners_of(_)
\* for every data point of the releases, in order, the release it belongs to
owners_of(releases) ==
  IF Len(releases) = 0 THEN <<>>
  ELSE [k \in 1..Len(releases[1].data[1].dataPoints) |-> releases[1]]
       \o owners_of(Tail(releases))

\* C19: the flattening yields one row per data point, in response order:
\* its period start and its prices are those of the data point, its release
\* date and ticker those of the release the data point belongs to.
C19_OneRowPerDataPoint ==
  Flattened
    => LET points == data_points_of(my_dict.value)
           owners == owners_of(my_dict.value)
       IN /\ Len(historical_df) = Len(points)
          /\ \A k \in 1..Len(points) :
               /\ historical_df[k].period_start
                    = points[k].deliveryPeriod.startAt
               /\ historical_df[k].usd_day
                    = points[k].derivedPrices.usdPerDay.spark
               /\ historical_df[k].day_min
                    = points[k].derivedPrices.usdPerDay.sparkMin
               /\ historical_df[k].day_max
                    = points[k].derivedPrices.usdPerDay.sparkMax
               /\ historical_df[k].usd_mmbtu
                    = points[k].derivedPrices.usdPerMMBtu.spark
               /\ historical_df[k].release_date = owners[k].releaseDate
               /\ historical_df[k].ticker = owners[k].contractId

\* C20: after the flattening loop all the column lists have one length, and
\* it is the limit the request was sent with.
C20_ListsAsLongAsLimit ==
  Flattened
    => /\ \A name \in DOMAIN columns :
            Len(columns[name]) = Len(columns.release_dates)
       /\ <<"?limit=", ToString(Len(columns.release_dates))>>
            = SubSeq(Last(requests).url, 5, 6)

\* C21: in a run with assertions disabled no status check rejects a
\* successful answer: after a 2xx answer with a JSON body, be its status the
\* expected one or not, the helper has parsed and returned the body; the
\* token of a 200 answer to the token POST is returned, and so is the data
\* of a 201 answer to a GET.
C21_StatusUncheckedWhenOptimized ==
  optimized
    => /\ error # "AssertionError"
       /\ (/\ requests # <<>> /\ response.reachable
           /\ response.status \in 200..299 /\ response.body.valid)
            => error \notin {"exit", "URLError", "JSONDecodeError"}
       /\ (TokenDocumentReceived /\ token_response.status \in 200..299)
            => access_token = token_response.body.json.accessToken
       /\ (FetchReturned /\ response.status \in 200..299)
            => /\ my_dict.given
               /\ my_dict.value = response.body.json.data

C21_Witness ==
  /\ optimized
  /\ TokenDocumentReceived
  /\ token_response.status = 200
  /\ access_token = token_response.body.json.accessToken
  /\ FetchReturned
  /\ response.status = 201
  /\ error = ""
  /\ my_dict.given
  /\ my_dict.value = response.body.json.data

\* the url of the request a direct call has sent
CalledUrl == Last(requests).url

\* C22: fetch_historical_price_releases requests
\* /v1.0/contracts/{ticker}/price-releases/ with a query string that always
\* holds limit (4 when the caller gives none) and holds offset, after limit,
\* exactly when the caller passed an offset other than None: an offset of 0
\* is sent, an omitted one is not.
C22_LimitAlwaysOffsetWhenGiven ==
  call.function = "fetch_historical_price_releases"
    => /\ Len(requests) = 1
       /\ Last(requests).method = "GET"
       /\ SubSeq(CalledUrl, 1, 5)
            = <<API_BASE_URL, "/v1.0/contracts/", call.ticker,
                "/price-releases/", "?limit=">>
       /\ CalledUrl[6]
            = ToString(IF call.limit.given THEN call.limit.value ELSE 4)
       /\ IF call.offset.given
            THEN SubSeq(CalledUrl, 7, Len(CalledUrl))
                   = <<"&offset=", ToString(call.offset.value)>>
          ELSE Len(CalledUrl) = 6

C22_Witness ==
  /\ call.function = "fetch_historical_price_releases"
  /\ ~call.limit.given
  /\ call.offset.given /\ call.offset.value = 0
  /\ CalledUrl[6] = "4"
  /\ SubSeq(CalledUrl, 7, 8) = <<"&offset=", "0">>
  /\ pc = "returned"

ExampleSucceeded ==
  script = "spark_api_example" /\ pc = "terminated" /\ exit_code = 0

\* the arguments of the first printed line with the text text
FirstPrinted(text) ==
  LET k == CHOOSE k \in 1..Len(output) :
             /\ output[k].text = text
             /\ \A j \in 1..(k - 1) : output[j].text # text
  IN output[k].args

\* the release dates of the route list, as routes_sample prints them, and
\* the uuid of the first route it prints
PrintedReleaseDates == FirstPrinted("release_dates={}")[1]
FirstPrintedRoute == FirstPrinted("uuid={}, {} to {} via={})")[1]

\* the urls of the requests of a fully successful run of spark_api_example
ExpectedUrls ==
  << <<API_BASE_URL, "/oauth/token/">>, <<API_BASE_URL, "/v1.0/contracts/">> >>
  \o [k \in 1..Len(tickers) |->
        <<API_BASE_URL, "/v1.0/contracts/", tickers[k],
          "/price-releases/latest/">>]
  \o << <<API_BASE_URL, "/v1.0/contracts/", tickers[1], "/price-releases/",
          "?limit=", "4">>,
        <<API_BASE_URL, "/v1.0/routes">> >>
  \o [k \in 1..(IF Len(PrintedReleaseDates) < 10
                   THEN Len(PrintedReleaseDates) ELSE 10) |->
        <<API_BASE_URL, "/v1.0/routes/", FirstPrintedRoute, "?release-date=",
          PrintedReleaseDates[k]>>]

\* C24: the requests of a fully successful run of spark_api_example.main
\* are, in this order: the token POST, the GET of the contract list, one
\* latest-release GET per ticker in list order, one historical GET for the
\* first ticker, the GET of the route list, and one route-cost GET for the
\* first route per release date, in list order, for the first 10 release
\* dates at most.
C24_RequestOrder ==
  ExampleSucceeded
    => /\ [k \in 1..Len(requests) |-> requests[k].url] = ExpectedUrls
       /\ Posts = {1}
       /\ Gets = 2..Len(requests)

C24_Witness ==
  /\ ExampleSucceeded
  /\ Len(tickers) >= 2
  /\ Len(PrintedReleaseDates) > 10
  /\ Len(requests) = 4 + Len(tickers) + 10
  /\ Last(requests).url[5] = PrintedReleaseDates[10]

\* the contracts endpoint has answered a command-line script with status 200
\* and an empty data list, and nothing has been requested since
EmptyContractList ==
  /\ script \in CommandLineScripts
  /\ Len(requests) = 2
  /\ response.reachable /\ response.status = 200 /\ response.body.valid
  /\ Has(response.body.json, "data")
  /\ Len(response.body.json.data) = 0

\* C25: when the contracts endpoint answers 200 with an empty data list,
\* main of either command-line script fails with an uncaught error after
\* its two requests: the step after list_contracts raises IndexError, no
\* further request is sent and the final message is never printed.
C25_EmptyContractListFails ==
  /\ [](EmptyContractList
          => /\ tickers = <<>>
             /\ ~FinalMessagePrinted
             /\ pc = "terminated" => error = "IndexError" /\ exit_code = 1)
  /\ [][ EmptyContractList
           => /\ requests' = requests
              /\ pc # "terminated"
                   => pc' = "terminated" /\ error' = "IndexError" ]_vars

C25_Witness ==
  /\ EmptyContractList
  /\ script = "spark_api_example"
  /\ pc = "terminated"
  /\ error = "IndexError"
  /\ exit_code = 1
  /\ ~FinalMessagePrinted

\* what the other copy of retrieve_credentials makes of the file of the run:
\* the copy of spark_price_releases.py and the tutorials for a run of
\* spark_api_example.py, and the copy of spark_api_example.py for the others
OtherCopy ==
  IF script = "spark_api_example" THEN credentials_from_file_releases(file)
  ELSE credentials_from_file_example(file)

\* C26: the copies of retrieve_credentials are equivalent: for every
\* credentials file either all fail or all return the same pair.
C26_CopiesEquivalent ==
  ReadsFile
    => /\ CredentialFailure <=> OtherCopy.raised
       /\ credentials = OtherCopy.value

\* list_netbacks has returned and the filtering cell has run: the reference
\* data is the second request of the netbacks tutorial, and after it only
\* the choice of a port fails without a request
NetbacksListed ==
  /\ script = "netbacks"
  /\ Len(requests) = 2
  /\ error \in {"", "TypeError", "IndexError"}

\* C27: tickers, fobPort_names and availablevia are parallel lists in
\* response order, and via_index, port_list, tick_list and via_list hold
\* exactly the ports with via points, in the original order, via_index[k]
\* being the position (from 0) of the k-th such port in tickers.
C27_ParallelAndFiltered ==
  NetbacksListed
    => LET ports == response.body.json.data.staticData.fobPorts
           a == available_df
           callable == { k \in 1..Len(ports) :
                           Len(ports[k].availableViaPoints) # 0 }
       IN /\ Len(listing.tickers) = Len(ports)
          /\ Len(listing.fobPort_names) = Len(ports)
          /\ Len(listing.availablevia) = Len(ports)
          /\ \A k \in 1..Len(ports) :
               /\ listing.tickers[k] = ports[k].uuid
               /\ listing.fobPort_names[k] = ports[k].name
               /\ listing.availablevia[k] = ports[k].availableViaPoints
          /\ Len(a.via_index) = Cardinality(callable)
          /\ Len(a.port_list) = Len(a.via_index)
          /\ Len(a.tick_list) = Len(a.via_index)
          /\ Len(a.via_list) = Len(a.via_index)
          /\ \A j \in 1..Len(a.via_index) :
               /\ a.via_index[j] + 1 \in callable
               /\ j > 1 => a.via_index[j - 1] < a.via_index[j]
               /\ a.port_list[j] = ports[a.via_index[j] + 1].name
               /\ a.tick_list[j] = listing.tickers[a.via_index[j] + 1]
               /\ a.via_list[j] = ports[a.via_index[j] + 1].availableViaPoints

C27_Witness ==
  /\ NetbacksListed
  /\ Len(listing.tickers) = 3
  /\ available_df.via_index = <<0, 2>>
  /\ available_df.port_list = <<"Cove Point", "Sabine Pass">>
  /\ available_df.tick_list = <<"fob-1", "fob-3">>

\* other secrets (or tokens) with the first five characters of s
Alike(s) ==
  { x \in { Take(s, 5) \o rest :
              rest \in {<<>>, <<"t">>, <<"7">>, <<"7", "\n">>, <<"\n">>} } :
      Take(x, 5) = Take(s, 5) }

\* a command-line script has resolved its credentials / got its token
CredentialsPrinted ==
  script \in CommandLineScripts /\ pc # "main" /\ ~CredentialFailure
TokenPrinted ==
  /\ script \in CommandLineScripts
  /\ TokenDocumentReceived
  /\ access_token # NoToken

MostRequests ==
  IF script = "spark_api_example"
    THEN 4 + Len(tickers) + Len(routes.release_dates)
  ELSE 6 + Len(routes.release_dates)

\* C29: every run of main ends, with its final message or with a failure,
\* and the requests it sends are bounded by the sizes of the contract list
\* and of the release-date list it received.
C29_Terminates ==
  /\ <>(/\ pc = "terminated"
        /\ exit_code = 0 => FinalMessagePrinted /\ error = ""
        /\ exit_code # 0 => ~FinalMessagePrinted /\ error # "")
  /\ [](Len(requests) <= MostRequests)
  /\ [](Len(routes.release_dates) <= 10)

C29_Witness ==
  /\ pc = "terminated"
  /\ exit_code = 0
  /\ FinalMessagePrinted
  /\ script = "spark_api_example"
  /\ Len(tickers) >= 2
  /\ Len(requests) = MostRequests
  /\ Len(routes.release_dates) = 10

====
